---------------------------- MODULE Spec2Model ----------------------------
(***************************************************************************)
(* Mancala tournament server (src/src/server.js).                          *)
(*                                                                         *)
(* State: the three DynamoDB tables the handlers use (ActivePlayers,       *)
(* ActiveGames, Players), the in-process finishedGameEmitter with its SSE  *)
(* subscriptions, and one frame (the locals and the position) for every    *)
(* handler invocation in flight.  A handler is cut at its awaits: the code *)
(* between two awaits runs without interleaving (one JavaScript thread),   *)
(* every store command is one atomic step of the store.                    *)
(*                                                                         *)
(* Name resolution.  The two turn handlers use names outside the block     *)
(* that declares them: game (line 213, declared at 238 inside the try),    *)
(* pit (assigned at 219/221, a const of line 210), gameId (line 409),      *)
(* updatedState and history (lines 315-316, declared at 398/401), and in   *)
(* GET turns turnGames (assigned at 185, a const of line 142) and turnId   *)
(* (line 201).  The model reads every such name as the value the handler   *)
(* declares for it: game is the match stored under the request's turn      *)
(* token, gameId is game.id, updatedState/history are the values of lines  *)
(* 398-405, turnGames becomes [newGame], turnId is game.turnId.  A read of *)
(* game.playerIds when no such match is stored is the fault of line 213.   *)
(* Store commands are read by what they ask for: Get by turn token, Query  *)
(* by participant, Update of the match's state and history.                *)
(* Timestamps (createdAt, timestamp, lastPlayedAt) are not modelled.       *)
(***************************************************************************)
EXTENDS Integers, Sequences, FiniteSets, TLC

\* ------------------------------------------------------------------ bounds
\* requests the clients issue in one run of the server
MaxReq == 2
\* handler invocations in flight at the same time
MaxInFlight == 2
\* requests the clients issue in one run of the server that serves them one
\* after the other (SpecSerial)
MaxSerial == 2
\* moves the clients play in one run of a single match (SpecEngine)
MaxPly == 4
\* matches the ActiveGames table can hold
MaxGames == 2
\* stones in a slot of the boards the transform is checked on
\* (SpecPerspective)
MaxStones == 2
\* event streams connected at the start, and requests issued after it
\* (SpecEvents)
MaxSubs == 2
MaxEventReq == 1
\* steps of 25 rating points on either side of the starting score
\* (SpecRating)
MaxGap == 16

\* ------------------------------------------------------- program constants
K_FACTOR == 32
MAX_ACTIVE_GAMES_PER_PLAYER == 10
StartScore == 1200

Player == {"p1", "p2", "p3"}
\* a turn token no match carries
NoToken == 0
\* the pit values a request body carries (relative to the sender's side)
PitInputs == (0 - 1) .. 7

Slots == 0 .. 13

\* ------------------------------------------------------------- board model
Brd(s) == [i \in Slots |-> s[i + 1]]

InitialBoard == Brd(<<4, 4, 4, 4, 4, 4, 0, 4, 4, 4, 4, 4, 4, 0>>)

RECURSIVE SumFrom(_, _, _)
SumFrom(board, lo, hi) ==
    IF lo > hi THEN 0 ELSE board[lo] + SumFrom(board, lo + 1, hi)

\* board.slice(0, 6).reduce(...) and board.slice(7, 13).reduce(...)
PitTotal(board, isPlayer1) ==
    IF isPlayer1 THEN SumFrom(board, 0, 5) ELSE SumFrom(board, 7, 12)

FlipKeepsStores(board) ==
    [i \in Slots |->
        IF i <= 5 THEN board[i + 7]
        ELSE IF i = 6 THEN board[6]
        ELSE IF i <= 12 THEN board[i - 7]
        ELSE board[13]]

FlipBySix(board) == [i \in Slots |-> board[(i + 6) % 14]]

\* the flip of the board for the second participant
Flip(board) ==
    [i \in Slots |->
        IF i <= 5 THEN board[i + 7]
        ELSE IF i = 6 THEN board[13]
        ELSE IF i <= 12 THEN board[i - 7]
        ELSE board[6]]

Normalize(board, isPlayer1) == IF isPlayer1 THEN board ELSE Flip(board)

\* indexOf on the two-element playerIds (0, 1, or -1)
IndexOf(playerIds, playerId) ==
    IF playerIds[1] = playerId THEN 0
    ELSE IF playerIds[2] = playerId THEN 1
    ELSE 0 - 1

\* -------------------------------------------------------------- move logic
SkipsSlotNoSkip(isPlayer1, idx) == FALSE

SkipsSlotFirstSideOnly(isPlayer1, idx) == isPlayer1 /\ idx = 13

\* the slot the sowing loop passes over: the opponent's store
SkipsSlot(isPlayer1, idx) ==
    (isPlayer1 /\ idx = 13) \/ (~isPlayer1 /\ idx = 6)

RECURSIVE SowLoop(_, _, _, _)
SowLoop(board, idx, stones, isPlayer1) ==
    IF stones > 0
    THEN LET nidx == (idx + 1) % 14
         IN  IF SkipsSlot(isPlayer1, nidx)
             THEN SowLoop(board, nidx, stones, isPlayer1)
             ELSE SowLoop([board EXCEPT ![nidx] = @ + 1], nidx, stones - 1,
                          isPlayer1)
    ELSE [board |-> board, idx |-> idx]

SowDropsStone(board, pit, isPlayer1) ==
    SowLoop([board EXCEPT ![pit] = 0], pit, board[pit] - 1, isPlayer1)

SowFromPit(board, pit, isPlayer1) ==
    SowLoop([board EXCEPT ![pit] = 0], (pit + 13) % 14, board[pit],
            isPlayer1)

\* let stones = board[pit]; board[pit] = 0; the loop
Sow(board, pit, isPlayer1) ==
    SowLoop([board EXCEPT ![pit] = 0], pit, board[pit], isPlayer1)

NextTurnAlwaysSwitch(playerIds, playerIdx, idx) == playerIds[(1 - playerIdx) + 1]

\* extra turn when the last stone landed in the mover's store
NextTurn(playerIds, playerIdx, idx) ==
    IF (playerIdx = 0 /\ idx = 6) \/ (playerIdx # 0 /\ idx = 13)
    THEN playerIds[playerIdx + 1]
    ELSE playerIds[(1 - playerIdx) + 1]

SideEmpty(board, isPlayer1) ==
    IF isPlayer1 THEN \A i \in 0 .. 5 : board[i] = 0
    ELSE \A i \in 7 .. 12 : board[i] = 0

EndGameOwnSideOnly(board) ==
    IF SideEmpty(board, TRUE) /\ SideEmpty(board, FALSE)
    THEN [board |-> board, status |-> "finished"]
    ELSE [board |-> board, status |-> "active"]

EndGameNeverFinished(board) == [board |-> board, status |-> "active"]

\* game end check and the sweep of both sides
EndGame(board) ==
    IF SideEmpty(board, TRUE) \/ SideEmpty(board, FALSE)
    THEN [board |->
            [i \in Slots |->
                IF i = 6 THEN board[6] + PitTotal(board, TRUE)
                ELSE IF i = 13 THEN board[13] + PitTotal(board, FALSE)
                ELSE 0],
          status |-> "finished"]
    ELSE [board |-> board, status |-> "active"]

\* pit < pitStart || pit > pitEnd || board[pit] === 0
PitInvalid(board, pit, isPlayer1) ==
    LET pitStart == IF isPlayer1 THEN 0 ELSE 7
        pitEnd == IF isPlayer1 THEN 5 ELSE 12
    IN  pit < pitStart \/ pit > pitEnd \/ board[pit] = 0

\* the handler's locals after the move logic, for a fetched game whose turn
\* is playerId and an absolute pit that passed the pit validation
ApplyMove(game, playerId, pit) ==
    LET playerIdx == IndexOf(game.playerIds, playerId)
        isPlayer1 == playerIdx = 0
        sown == Sow(game.state.board, pit, isPlayer1)
        nextTurn == NextTurn(game.playerIds, playerIdx, sown.idx)
        end == EndGame(sown.board)
        move == [turnId |-> game.turnId, board |-> end.board,
                 player |-> playerId, pit |-> pit]
    IN  [sown |-> sown.board, idx |-> sown.idx, board |-> end.board,
         nextTurn |-> nextTurn, status |-> end.status,
         history |-> Append(game.history, move),
         updatedState |-> [board |-> end.board, turn |-> nextTurn,
                           status |-> end.status]]


\* ------------------------------------------------------------ rating logic
\* Math.round(32 * (1 - 1 / (1 + Math.pow(10, d / 400)))) for the integer
\* rating difference d (opponent minus own): the smallest d at which the
\* rounded value reaches k, for k = 1 .. 32
GainStep ==
    <<0 - 719, 0 - 523, 0 - 428, 0 - 364, 0 - 314, 0 - 273, 0 - 237, 0 - 205,
      0 - 176, 0 - 149, 0 - 124, 0 - 100, 0 - 77, 0 - 54, 0 - 32, 0 - 10,
      11, 33, 55, 78, 101, 125, 150, 177, 206, 238, 274, 315, 365, 429, 524,
      720>>

Gain(d) == Cardinality({k \in 1 .. K_FACTOR : d >= GainStep[k]})

NewScoreTwiceK(own, opp, twice) ==
    own + 2 * (Gain(opp - own) - K_FACTOR + (K_FACTOR * twice) \div 2)

\* Math.round(own + K_FACTOR * (score - expected)), twice == 2 * score
NewScore(own, opp, twice) ==
    own + Gain(opp - own) - K_FACTOR + (K_FACTOR * twice) \div 2

\* winnerId / draw of lines 300-313 as the side that won (0: draw)
WinnerIdx(board) ==
    IF board[6] > board[13] THEN 1
    ELSE IF board[13] > board[6] THEN 2
    ELSE 0

\* the values of one participant's UpdateCommand (i = 1, 2), computed from
\* the two player records read before
PlayerUpdate(i, own, opp, winner) ==
    [score |-> NewScore(own.score, opp.score,
                        IF winner = 0 THEN 1 ELSE IF winner = i THEN 2 ELSE 0),
     w |-> IF winner = i THEN 1 ELSE 0,
     l |-> IF winner # 0 /\ winner # i THEN 1 ELSE 0]

\* ---------------------------------------------------------------- matches
NewGameOpponentFirst(id, playerId, opponent) ==
    [id |-> id, turnId |-> id, playerIds |-> <<opponent, playerId>>,
     state |-> [board |-> InitialBoard, turn |-> playerId,
                status |-> "active"],
     history |-> <<>>]

NewGameSharedToken(id, playerId, opponent) ==
    [id |-> id, turnId |-> 1, playerIds |-> <<playerId, opponent>>,
     state |-> [board |-> InitialBoard, turn |-> playerId,
                status |-> "active"],
     history |-> <<>>]

\* newGame: the random ids are the next free match number
NewGame(id, playerId, opponent) ==
    [id |-> id, turnId |-> id, playerIds |-> <<playerId, opponent>>,
     state |-> [board |-> InitialBoard, turn |-> playerId,
                status |-> "active"],
     history |-> <<>>]

\* ------------------------------------------------------ finished-game events
\* the move of a finished game as the SSE handler sends it to playerId
TransformMove(game, playerId, move) ==
    IF game.playerIds[1] # playerId
    THEN [move EXCEPT
            !.board = Flip(move.board),
            !.pit = IF move.pit >= 0 /\ move.pit <= 5 THEN move.pit + 7
                    ELSE IF move.pit = 6 THEN 13
                    ELSE move.pit]
    ELSE move

RECURSIVE HandlerEvents(_, _, _, _)
HandlerEvents(game, playerId, result, k) ==
    IF k > Len(game.history) THEN <<>>
    ELSE LET move == game.history[k]
             rest == HandlerEvents(game, playerId, result, k + 1)
         IN  IF move.player = playerId
             THEN <<[move |-> TransformMove(game, playerId, move),
                     result |-> result]>> \o rest
             ELSE rest

\* what handler(game) of a subscription of playerId writes to its stream
Handler(sub, game) ==
    LET playerIdx == IndexOf(game.playerIds, sub.playerId)
        playerScore == game.state.board[IF playerIdx = 0 THEN 6 ELSE 13]
        opponentScore == game.state.board[IF playerIdx = 0 THEN 13 ELSE 6]
        result == IF playerScore > opponentScore THEN "win"
                  ELSE IF playerScore < opponentScore THEN "loss"
                  ELSE "draw"
    IN  IF sub.closed \/ playerIdx = 0 - 1 THEN <<>>
        ELSE HandlerEvents(game, sub.playerId, result, 1)

\* finishedGameEmitter.emit(playerId, game): every listener registered for
\* playerId runs its handler
Emit(ss, ls, playerId, game) ==
    [s \in DOMAIN ss |->
        IF \E k \in 1 .. Len(ls[playerId]) : ls[playerId][k] = s
        THEN [ss[s] EXCEPT !.out = @ \o Handler(ss[s], game)]
        ELSE ss[s]]

\* ------------------------------------------------------------------- state
VARIABLES
    ActivePlayers,  \* table ActivePlayers: the set of registered ids
    ActiveGames,    \* table ActiveGames: match id -> match record
    Players,        \* table Players: player id -> [score, wins, losses]
    listeners,      \* finishedGameEmitter: player id -> sequence of handlers
    subs,           \* SSE subscriptions: id -> [playerId, closed, out]
    req,            \* handler invocations: slot -> frame (locals, position)
    budget,         \* requests the clients may still issue
    resp            \* the last response a handler has sent

vars == <<ActivePlayers, ActiveGames, Players, listeners, subs, req, budget,
          resp>>

Idle == [pc |-> "idle"]

NoGame == [id |-> 0]

NoResp == [n |-> 0, op |-> "none", playerId |-> "none", turnId |-> NoToken,
           pit |-> 0, code |-> "none", game |-> NoGame, board |-> <<>>,
           created |-> FALSE]

\* the matches stored under a turn token (GetCommand by turnId)
GamesByTurnId(turnId) ==
    {g \in DOMAIN ActiveGames : ActiveGames[g].turnId = turnId}

\* the matches a player takes part in (QueryCommand on PlayerIndex)
GamesOfPlayer(playerId) ==
    {g \in DOMAIN ActiveGames :
        IndexOf(ActiveGames[g].playerIds, playerId) # 0 - 1}

\* ------------------------------------------------- adjourned matches (Init)
\* The tables outlive the server process: a run can start with matches that
\* earlier runs left in ActiveGames.  Every such match is obtained here by
\* replaying a line of play from a new game through the handler's own move
\* logic, so it is a match the program can hold.
RECURSIVE Replay(_, _, _)
Replay(game, line, k) ==
    IF k = 0 THEN game
    ELSE LET g == Replay(game, line, k - 1)
             mv == ApplyMove(g, g.state.turn, line[k])
         IN  [g EXCEPT !.state = mv.updatedState, !.history = mv.history]

\* a complete game of 13 moves (absolute pits)
ShortLine == <<4, 10, 5, 8, 0, 1, 2, 8, 3, 8, 4, 8, 5>>

\* 12 moves after which the second side holds a pit of 14 stones
HeavyLineB == <<0, 7, 5, 7, 1, 2, 7, 3, 7, 5, 7, 4>>

\* 40 moves after which the first side holds a pit of 27 stones
HeavyLineA ==
    <<0, 11, 0, 12, 0, 9, 10, 0, 8, 3, 12, 0, 7, 4, 11, 0, 10, 12, 0, 8,
      5, 9, 0, 11, 2, 7, 0, 8, 4, 10, 0, 12, 0, 9, 3, 10, 5, 11, 0, 7>>

Adjourned(id, a, b, line, k) == Replay(NewGame(id, a, b), line, k)

\* every move of a line is one the handler accepts
RECURSIVE LineLegal(_, _, _)
LineLegal(game, line, k) ==
    IF k = 0 THEN TRUE
    ELSE LET g == Replay(game, line, k - 1)
         IN  /\ LineLegal(game, line, k - 1)
             /\ g.state.status = "active"
             /\ ~PitInvalid(g.state.board, line[k],
                            g.playerIds[1] = g.state.turn)

\* the stores a run of the server starts with
InitStores ==
    {<<>>}
    \cup {<<Adjourned(1, "p1", "p2", ShortLine, k)>> : k \in {11, 12}}
    \cup {<<Adjourned(1, "p1", "p2", ShortLine, 12),
            Adjourned(2, "p3", "p1", ShortLine, 12)>>}

\* the adjourned matches a run of a single match starts with
EngineSeeds ==
    {Adjourned(1, "p1", "p2", ShortLine, k) : k \in 0 .. 12}
    \cup {Adjourned(1, "p1", "p2", HeavyLineB, 12),
          Adjourned(1, "p1", "p2", HeavyLineA, 40)}

Participants(games) ==
    {games[g].playerIds[i] : g \in DOMAIN games, i \in 1 .. 2}

InitWith(games, slots, n) ==
    /\ ActiveGames = games
    /\ ActivePlayers = Participants(games)
    /\ Players = [p \in Player |->
                    [score |-> StartScore, wins |-> 0, losses |-> 0]]
    /\ listeners = [p \in Player |-> <<>>]
    /\ subs = <<>>
    /\ req = [r \in 1 .. slots |-> Idle]
    /\ budget = n
    /\ resp = NoResp

Init == \E games \in InitStores : InitWith(games, MaxInFlight, MaxReq)

InitSerial == \E games \in InitStores : InitWith(games, 1, MaxSerial)

InitEngine == \E game \in EngineSeeds : InitWith(<<game>>, 1, MaxPly)

\* a store in which p1 and p2 have played one match more than the ceiling of
\* GET turns to its end (the handlers never delete a match)
CrowdedStores ==
    {[g \in 1 .. MAX_ACTIVE_GAMES_PER_PLAYER + 1 |->
        Adjourned(g, "p1", "p2", ShortLine, Len(ShortLine))]}

InitCrowded ==
    \E games \in InitStores \cup CrowdedStores : InitWith(games, 1, MaxSerial)

\* the serial server at a moment when up to MaxSubs event streams of p1 are
\* connected and the clients will issue MaxEventReq more requests
InitEvents ==
    \E games \in InitStores, k \in 0 .. MaxSubs :
        /\ ActiveGames = games
        /\ ActivePlayers = Participants(games)
        /\ Players = [p \in Player |->
                        [score |-> StartScore, wins |-> 0, losses |-> 0]]
        /\ subs = [s \in 1 .. k |->
                     [playerId |-> "p1", closed |-> FALSE, out |-> <<>>]]
        /\ listeners = [p \in Player |->
                          IF p = "p1" THEN [s \in 1 .. k |-> s] ELSE <<>>]
        /\ req = <<Idle>>
        /\ budget = MaxEventReq
        /\ resp = NoResp

\* ---------------------------------------------------------------- responses
\* resp records the response (for GET turns with the game it was built from
\* and whether the handler created it); the invocation ends
Respond(r, op, playerId, turnId, pit, code, game, board, created) ==
    /\ resp' = [n |-> resp.n + 1, op |-> op, playerId |-> playerId,
                turnId |-> turnId, pit |-> pit, code |-> code,
                game |-> game, board |-> board, created |-> created]
    /\ req' = [req EXCEPT ![r] = Idle]

RejectPersisting(r, f, code) ==
    /\ Respond(r, "submitMove", f.playerId, f.turnId, f.relPit, code, NoGame,
               <<>>, FALSE)
    /\ ActiveGames' =
         [g \in DOMAIN ActiveGames |->
            IF ActiveGames[g].turnId = f.turnId
            THEN [ActiveGames[g] EXCEPT !.state.turn = f.playerId]
            ELSE ActiveGames[g]]
    /\ UNCHANGED <<ActivePlayers, Players, listeners, subs>>

\* return res.status(...).json({ error }) of POST turns: nothing is written
Reject(r, f, code) ==
    /\ Respond(r, "submitMove", f.playerId, f.turnId, f.relPit, code, NoGame,
               <<>>, FALSE)
    /\ UNCHANGED <<ActivePlayers, ActiveGames, Players, listeners, subs>>

\* ------------------------------------------ POST /players/:id/turns/:turnId
\* the unflip of the selected pit for a sender who is not playerIds[0]
Unflip(pit, isPlayer1) ==
    IF isPlayer1 THEN [ok |-> TRUE, pit |-> pit]
    ELSE IF pit >= 0 /\ pit <= 5 THEN [ok |-> TRUE, pit |-> pit + 7]
    ELSE IF pit = 6 THEN [ok |-> TRUE, pit |-> 13]
    ELSE [ok |-> FALSE, pit |-> pit]

\* the handler up to its first await: the pit is unflipped with the match of
\* the turn token, which has not been fetched yet
SubmitStart(r, playerId, turnId, pit) ==
    /\ req[r].pc = "idle"
    /\ budget > 0
    /\ LET found == GamesByTurnId(turnId)
           f == [pc |-> "fetch", op |-> "submitMove", playerId |-> playerId,
                 turnId |-> turnId, relPit |-> pit, pit |-> pit]
       IN  IF found = {}
           THEN Reject(r, f, "fault")
           ELSE LET game == ActiveGames[CHOOSE g \in found : TRUE]
                    un == Unflip(pit, IndexOf(game.playerIds, playerId) = 0)
                IN  IF ~un.ok
                    THEN Reject(r, f, "invalid_pit")
                    ELSE /\ req' = [req EXCEPT ![r] = [f EXCEPT !.pit = un.pit]]
                         /\ UNCHANGED <<ActivePlayers, ActiveGames, Players,
                                        listeners, subs, resp>>
    /\ budget' = budget - 1

\* the checks on the fetched game, in the handler's order
Validate(found, playerId, pit) ==
    IF found = {} THEN "not_found"
    ELSE LET game == ActiveGames[CHOOSE g \in found : TRUE]
         IN  IF IndexOf(game.playerIds, playerId) = 0 - 1 THEN "forbidden"
             ELSE IF game.state.turn # playerId THEN "not_your_turn"
             ELSE IF PitInvalid(game.state.board, pit,
                                game.playerIds[1] = playerId)
             THEN "invalid_pit"
             ELSE "ok"

\* the game of the finished match as both emits publish it
FinishedGame(game, mv) ==
    [game EXCEPT !.state = mv.updatedState, !.history = mv.history]

\* GetCommand of the game and the code up to the next await: validation,
\* move logic, and for a finished game the two emits
SubmitFetch(r) ==
    /\ req[r].pc = "fetch"
    /\ LET f == req[r]
           found == GamesByTurnId(f.turnId)
           code == Validate(found, f.playerId, f.pit)
       IN  IF code # "ok"
           THEN Reject(r, f, code)
           ELSE LET game == ActiveGames[CHOOSE g \in found : TRUE]
                    mv == ApplyMove(game, f.playerId, f.pit)
                    fin == FinishedGame(game, mv)
                IN  IF mv.status = "finished"
                    THEN /\ subs' = Emit(Emit(subs, listeners,
                                              game.playerIds[1], fin),
                                         listeners, game.playerIds[2], fin)
                         /\ req' = [req EXCEPT ![r] =
                                      [pc |-> "getPlayers",
                                       op |-> "submitMove",
                                       playerId |-> f.playerId,
                                       turnId |-> f.turnId,
                                       relPit |-> f.relPit, pit |-> f.pit,
                                       game |-> game, mv |-> mv,
                                       got |-> {}, pl |-> <<>>,
                                       put |-> {}, upd |-> <<>>]]
                         /\ UNCHANGED <<ActivePlayers, ActiveGames, Players,
                                        listeners, resp>>
                    ELSE /\ req' = [req EXCEPT ![r] =
                                      [pc |-> "persist",
                                       op |-> "submitMove",
                                       playerId |-> f.playerId,
                                       turnId |-> f.turnId,
                                       relPit |-> f.relPit, pit |-> f.pit,
                                       game |-> game, mv |-> mv,
                                       got |-> {}, pl |-> <<>>,
                                       put |-> {}, upd |-> <<>>]]
                         /\ UNCHANGED <<ActivePlayers, ActiveGames, Players,
                                        listeners, subs, resp>>
    /\ UNCHANGED budget

\* one of the two GetCommands on Players; after the second, the ELO
\* calculation
ReadPlayer(r, i) ==
    /\ req[r].pc = "getPlayers"
    /\ i \notin req[r].got
    /\ LET f == req[r]
           got == f.got \cup {i}
           pl == [j \in got |->
                    IF j = i THEN Players[f.game.playerIds[i]] ELSE f.pl[j]]
           winner == WinnerIdx(f.mv.board)
       IN  req' = [req EXCEPT ![r] =
                     IF got = {1, 2}
                     THEN [f EXCEPT !.pc = "putPlayers", !.got = got,
                                    !.pl = pl,
                                    !.upd = <<PlayerUpdate(1, pl[1], pl[2],
                                                           winner),
                                              PlayerUpdate(2, pl[2], pl[1],
                                                           winner)>>]
                     ELSE [f EXCEPT !.got = got, !.pl = pl]]
    /\ UNCHANGED <<ActivePlayers, ActiveGames, Players, listeners, subs,
                   budget, resp>>

\* SET score = :score, wins = wins + :w, losses = losses + :l on the stored
\* record (read: the record the handler had read, which the command ignores)
StoreScore(old, upd, read) ==
    [score |-> upd.score, wins |-> old.wins + upd.w,
     losses |-> old.losses + upd.l]

\* one of the two UpdateCommands on Players
WritePlayer(r, i) ==
    /\ req[r].pc = "putPlayers"
    /\ i \notin req[r].put
    /\ LET f == req[r]
           put == f.put \cup {i}
           id == f.game.playerIds[i]
       IN  /\ Players' = [Players EXCEPT ![id] =
                            StoreScore(@, f.upd[i], f.pl[i])]
           /\ req' = [req EXCEPT ![r] =
                        [f EXCEPT !.put = put,
                                  !.pc = IF put = {1, 2} THEN "persist"
                                         ELSE "putPlayers"]]
    /\ UNCHANGED <<ActivePlayers, ActiveGames, listeners, subs, budget,
                   resp>>

PutGameRotatesToken(games, game, mv) ==
    [g \in DOMAIN games |->
        IF games[g].id = game.id
        THEN [games[g] EXCEPT !.state = mv.updatedState,
                              !.history = mv.history,
                              !.turnId = @ + Len(games)]
        ELSE games[g]]

\* the UpdateCommand on ActiveGames: SET state, history, unconditionally
PutGame(games, game, mv) ==
    [g \in DOMAIN games |->
        IF games[g].id = game.id
        THEN [games[g] EXCEPT !.state = mv.updatedState,
                              !.history = mv.history]
        ELSE games[g]]

\* the UpdateCommand of the match and res.json(null)
PersistGame(r) ==
    /\ req[r].pc = "persist"
    /\ LET f == req[r]
       IN  /\ ActiveGames' = PutGame(ActiveGames, f.game, f.mv)
           /\ Respond(r, "submitMove", f.playerId, f.turnId, f.relPit, "ok",
                      NoGame, <<>>, FALSE)
    /\ UNCHANGED <<ActivePlayers, Players, listeners, subs, budget>>

\* ------------------------------------------------------- the random client
\* getRandomPit: the non-empty pits among 0..5 of the board the client got
GetRandomPit(board) == {i \in 0 .. 5 : board[i] > 0}

\* one round of playRandomGame for a match in which the client holds the
\* turn: it submits a random available pit of the normalized board
ClientPlay(r) ==
    \E g \in DOMAIN ActiveGames :
        LET game == ActiveGames[g]
            playerId == game.state.turn
            board == Normalize(game.state.board,
                               game.playerIds[1] = playerId)
        IN  \E pit \in GetRandomPit(board) :
                SubmitStart(r, playerId, game.turnId, pit)

NextEngine ==
    \/ \E r \in DOMAIN req : ClientPlay(r)
    \/ \E r \in DOMAIN req : SubmitFetch(r)
    \/ \E r \in DOMAIN req, i \in 1 .. 2 : ReadPlayer(r, i)
    \/ \E r \in DOMAIN req, i \in 1 .. 2 : WritePlayer(r, i)
    \/ \E r \in DOMAIN req : PersistGame(r)

SpecEngine == InitEngine /\ [][NextEngine]_vars

\* ------------------------------------------------ GET /players/:id/turns
\* res.json({ turnId, board }) with the board flipped for the second
\* participant, or the error response
GetTurnReply(r, f, code, game, created) ==
    /\ Respond(r, "getTurn", f.playerId,
               IF code = "ok" THEN game.turnId ELSE NoToken, 0, code,
               IF code = "ok" THEN game ELSE NoGame,
               IF code = "ok"
               THEN Normalize(game.state.board,
                              game.playerIds[1] = f.playerId)
               ELSE <<>>,
               created)

\* the conditional PutCommand on ActivePlayers
GetTurnStart(r, playerId) ==
    /\ req[r].pc = "idle"
    /\ budget > 0
    /\ budget' = budget - 1
    /\ ActivePlayers' = ActivePlayers \cup {playerId}
    /\ req' = [req EXCEPT ![r] = [pc |-> "queryGames", op |-> "getTurn",
                                  playerId |-> playerId]]
    /\ UNCHANGED <<ActiveGames, Players, listeners, subs, resp>>

\* games.filter(g => g.state && g.state.turn === playerId)
TurnGames(playerId) ==
    {g \in GamesOfPlayer(playerId) : ActiveGames[g].state.turn = playerId}

\* the QueryCommand on ActiveGames and the code up to the next await: a game
\* in which it is the player's turn is picked at random and returned, or the
\* handler goes on to create one
GetTurnQuery(r) ==
    /\ req[r].pc = "queryGames"
    /\ LET f == req[r]
           games == GamesOfPlayer(f.playerId)
           turnGames == TurnGames(f.playerId)
       IN  IF turnGames # {}
           THEN \E g \in turnGames :
                    GetTurnReply(r, f, "ok", ActiveGames[g], FALSE)
           ELSE IF Cardinality(games) > MAX_ACTIVE_GAMES_PER_PLAYER
           THEN GetTurnReply(r, f, "too_many", NoGame, FALSE)
           ELSE /\ req' = [req EXCEPT ![r] = [f EXCEPT !.pc = "queryPlayers"]]
                /\ UNCHANGED resp
    /\ UNCHANGED <<ActivePlayers, ActiveGames, Players, listeners, subs,
                   budget>>

\* the QueryCommand on ActivePlayers, the random opponent and newGame
GetTurnPlayers(r) ==
    /\ req[r].pc = "queryPlayers"
    /\ LET f == req[r]
           activePlayers == ActivePlayers \ {f.playerId}
       IN  IF activePlayers = {}
           THEN GetTurnReply(r, f, "no_opponent", NoGame, FALSE)
           ELSE /\ Len(ActiveGames)
                     + Cardinality({q \in DOMAIN req : req[q].pc = "putGame"})
                   < MaxGames
                /\ \E opponent \in activePlayers :
                      req' = [req EXCEPT ![r] =
                                [pc |-> "putGame", op |-> "getTurn",
                                 playerId |-> f.playerId,
                                 opponent |-> opponent]]
                /\ UNCHANGED resp
    /\ UNCHANGED <<ActivePlayers, ActiveGames, Players, listeners, subs,
                   budget>>

\* the PutCommand of newGame; turnGames = [newGame]; the response
GetTurnPut(r) ==
    /\ req[r].pc = "putGame"
    /\ LET f == req[r]
           newGame == NewGame(Len(ActiveGames) + 1, f.playerId, f.opponent)
       IN  /\ ActiveGames' = Append(ActiveGames, newGame)
           /\ GetTurnReply(r, f, "ok", newGame, TRUE)
    /\ UNCHANGED <<ActivePlayers, Players, listeners, subs, budget>>

\* ------------------------------------------------ GET /player/:id/games
\* finishedGameEmitter.on(playerId, handler) of a new SSE connection (the
\* handler has no await: the request is served in one step)
Subscribe(playerId) ==
    /\ budget > 0
    /\ budget' = budget - 1
    /\ subs' = Append(subs, [playerId |-> playerId, closed |-> FALSE,
                             out |-> <<>>])
    /\ listeners' = [listeners EXCEPT ![playerId] = Append(@, Len(subs) + 1)]
    /\ UNCHANGED <<ActivePlayers, ActiveGames, Players, req, resp>>

RemoveListenerNone(ls, s) == ls

\* removeListener(playerId, handler)
RemoveListener(ls, s) == SelectSeq(ls, LAMBDA x : x # s)

\* req.on('close'): closed = true and the handler is removed
Disconnect(s) ==
    /\ ~subs[s].closed
    /\ subs' = [subs EXCEPT ![s].closed = TRUE]
    /\ listeners' = [listeners EXCEPT ![subs[s].playerId] =
                       RemoveListener(@, s)]
    /\ UNCHANGED <<ActivePlayers, ActiveGames, Players, req, budget, resp>>

\* ------------------------------------------------------------------ server
Next ==
    \/ \E r \in DOMAIN req, playerId \in Player : GetTurnStart(r, playerId)
    \/ \E r \in DOMAIN req : GetTurnQuery(r)
    \/ \E r \in DOMAIN req : GetTurnPlayers(r)
    \/ \E r \in DOMAIN req : GetTurnPut(r)
    \/ \E r \in DOMAIN req, playerId \in Player,
          turnId \in (1 .. Len(ActiveGames)) \cup {NoToken},
          pit \in PitInputs :
            SubmitStart(r, playerId, turnId, pit)
    \/ \E r \in DOMAIN req : SubmitFetch(r)
    \/ \E r \in DOMAIN req, i \in 1 .. 2 : ReadPlayer(r, i)
    \/ \E r \in DOMAIN req, i \in 1 .. 2 : WritePlayer(r, i)
    \/ \E r \in DOMAIN req : PersistGame(r)
    \/ \E playerId \in Player : Subscribe(playerId)
    \/ \E s \in DOMAIN subs : Disconnect(s)

Spec == Init /\ [][Next]_vars

\* the same server when no two handler invocations overlap
SpecSerial == InitSerial /\ [][Next]_vars

\* the serial server, also started on the store of many finished matches
SpecCrowded == InitCrowded /\ [][Next]_vars

\* the serial server with event streams connected
SpecEvents == InitEvents /\ [][Next]_vars

\* the server while its clients only poll GET turns, concurrently
NextGetTurn ==
    \/ \E r \in DOMAIN req, playerId \in Player : GetTurnStart(r, playerId)
    \/ \E r \in DOMAIN req : GetTurnQuery(r)
    \/ \E r \in DOMAIN req : GetTurnPlayers(r)
    \/ \E r \in DOMAIN req : GetTurnPut(r)

SpecGetTurn == Init /\ [][NextGetTurn]_vars

\* ------------------------------------------------ the rating update alone
\* the scores the update is applied to: a grid around the starting score,
\* and the scores that lie at, and one below, each rounding step from it
ScoreInputs ==
    {StartScore + 25 * k : k \in 0 .. MaxGap}
    \cup {StartScore - 25 * k : k \in 0 .. MaxGap}
    \cup {StartScore + GainStep[k] : k \in 1 .. K_FACTOR}
    \cup {StartScore + GainStep[k] - 1 : k \in 1 .. K_FACTOR}

InitRating ==
    /\ ActiveGames = <<>>
    /\ ActivePlayers = {}
    /\ \E a \in ScoreInputs, b \in ScoreInputs :
          Players = [p \in Player |->
                       [score |-> IF p = "p1" THEN a
                                  ELSE IF p = "p2" THEN b ELSE StartScore,
                        wins |-> 0, losses |-> 0]]
    /\ listeners = [p \in Player |-> <<>>]
    /\ subs = <<>>
    /\ req = <<Idle>>
    /\ budget = 0
    /\ resp = NoResp

\* the ELO calculation and the two UpdateCommands (lines 333-387) for a
\* match of p1 and p2 won by side winner (0: a draw); resp.game keeps the
\* two records as they were read
RateMatch(winner) ==
    /\ resp.op = "none"
    /\ LET p1 == Players["p1"]
           p2 == Players["p2"]
       IN  /\ Players' =
                 [Players EXCEPT
                    !["p1"] = StoreScore(@, PlayerUpdate(1, p1, p2, winner),
                                         p1),
                    !["p2"] = StoreScore(@, PlayerUpdate(2, p2, p1, winner),
                                         p2)]
           /\ resp' = [resp EXCEPT !.n = @ + 1, !.op = "rate",
                                   !.pit = winner,
                                   !.game = [id |-> 0, players |-> <<p1, p2>>]]
    /\ UNCHANGED <<ActivePlayers, ActiveGames, listeners, subs, req, budget>>

NextRating ==
    \/ RateMatch(0)
    \/ RateMatch(1)
    \/ RateMatch(2)

SpecRating == InitRating /\ [][NextRating]_vars

\* ---------------------------------------------- the board transform alone
\* the boards the transform is applied to: up to two occupied slots, the
\* initial board, and boards whose fourteen slots all differ
PerspectiveBoards ==
    {[i \in Slots |-> IF i = a THEN v ELSE IF i = c THEN w ELSE 0] :
        a \in Slots, c \in Slots, v \in 0 .. MaxStones, w \in 0 .. MaxStones}
    \cup {InitialBoard}
    \cup {[i \in Slots |-> i + k] : k \in 0 .. MaxStones}

\* resp.game holds the board as stored, resp.board the board as sent, and
\* resp.code the sides it has been transformed for, in order
InitPerspective ==
    /\ ActiveGames = <<>>
    /\ ActivePlayers = {}
    /\ Players = [p \in Player |->
                    [score |-> StartScore, wins |-> 0, losses |-> 0]]
    /\ listeners = [p \in Player |-> <<>>]
    /\ subs = <<>>
    /\ req = <<Idle>>
    /\ budget = 0
    /\ \E board \in PerspectiveBoards :
          resp = [NoResp EXCEPT !.op = "transform", !.board = board,
                                !.game = [id |-> 0,
                                          state |-> [board |-> board]]]

\* the board transform of GET turns (lines 190-200) and of the SSE handler
\* (lines 472-479) applied to the board last sent
TransformBoard(isPlayer1) ==
    /\ resp.op = "transform"
    /\ resp.code \in {"none", "A", "B"}
    /\ resp' = [resp EXCEPT
                  !.n = @ + 1,
                  !.board = Normalize(@, isPlayer1),
                  !.code = IF resp.code = "none"
                           THEN (IF isPlayer1 THEN "A" ELSE "B")
                           ELSE IF resp.code = "A"
                           THEN (IF isPlayer1 THEN "AA" ELSE "AB")
                           ELSE (IF isPlayer1 THEN "BA" ELSE "BB")]
    /\ UNCHANGED <<ActivePlayers, ActiveGames, Players, listeners, subs, req,
                   budget>>

NextPerspective ==
    \/ TransformBoard(TRUE)
    \/ TransformBoard(FALSE)

SpecPerspective == InitPerspective /\ [][NextPerspective]_vars

\* ===================================================== properties: the engine
\* the frames that hold the outcome of an accepted move (the move logic has
\* run; the match is not written yet)
Moved == {r \in DOMAIN req : req[r].pc \in {"getPlayers", "putPlayers",
                                           "persist"}}

Stones(board) ==
    board[0] + board[1] + board[2] + board[3] + board[4] + board[5]
    + board[6] + board[7] + board[8] + board[9] + board[10] + board[11]
    + board[12] + board[13]

SideA(f) == f.game.playerIds[1] = f.playerId

OwnStore(f) == IF SideA(f) THEN 6 ELSE 13

OppStore(f) == IF SideA(f) THEN 13 ELSE 6

OpponentOf(f) ==
    IF SideA(f) THEN f.game.playerIds[2] ELSE f.game.playerIds[1]

\* C1: stone conservation.  Every stored board and every snapshot in a
\* history holds 48 stones, and so does the board of an accepted move before
\* the move, after the sowing and after the end-of-game sweep.
C1_StoneConservation ==
    /\ \A g \in DOMAIN ActiveGames :
          /\ Stones(ActiveGames[g].state.board) = 48
          /\ \A k \in 1 .. Len(ActiveGames[g].history) :
                Stones(ActiveGames[g].history[k].board) = 48
    /\ \A r \in Moved :
          /\ Stones(req[r].game.state.board) = 48
          /\ Stones(req[r].mv.sown) = 48
          /\ Stones(req[r].mv.board) = 48
          /\ \A k \in 1 .. Len(req[r].mv.history) :
                Stones(req[r].mv.history[k].board) = 48

\* a move that triggered the sweep has been written, snapshot included
C1_Witness ==
    \E g \in DOMAIN ActiveGames :
        /\ ActiveGames[g].state.status = "finished"
        /\ Len(ActiveGames[g].history) = Len(ShortLine)
        /\ ActiveGames[g].history[Len(ShortLine)].board
             = ActiveGames[g].state.board
        /\ Stones(ActiveGames[g].state.board) = 48

\* C2: extra-turn law.  The last stone of a move of n stones from pit p lands
\* in the mover's store exactly when n = store - p modulo the 13 slots the
\* mover sows; then the turn after the move is the mover, otherwise the
\* opponent.
C2_ExtraTurnLaw ==
    \A r \in Moved :
        LET f == req[r]
            inStore == (f.game.state.board[f.pit] % 13)
                          = OwnStore(f) - f.pit
        IN  /\ inStore <=> (f.mv.idx = OwnStore(f))
            /\ inStore => f.mv.nextTurn = f.playerId
                          /\ f.mv.updatedState.turn = f.playerId
            /\ ~inStore => f.mv.nextTurn = OpponentOf(f)
                           /\ f.mv.updatedState.turn = OpponentOf(f)

\* the second side ends a move in its store and keeps the turn
C2_Witness ==
    \E r \in Moved :
        /\ ~SideA(req[r])
        /\ req[r].mv.idx = 13
        /\ req[r].mv.nextTurn = req[r].playerId
        /\ req[r].mv.status = "active"

\* C3: no stone lands in the opponent's store.  After the sowing of an
\* accepted move the opponent's store holds what it held before (the sowing
\* only adds stones, so the slot was never incremented).
C3_NoStoneInOpponentStore ==
    \A r \in Moved :
        req[r].mv.sown[OppStore(req[r])]
            = req[r].game.state.board[OppStore(req[r])]

\* the first side sows 25 or more stones from pit 1: the cursor passes
\* index 13 twice
C3_Witness ==
    \E r \in Moved :
        /\ SideA(req[r])
        /\ req[r].pit = 1
        /\ req[r].game.state.board[1] >= 25
        /\ req[r].mv.sown[13] = req[r].game.state.board[13]

\* C4: end-game sweep.  The move ends the match exactly when a side's six
\* pits are empty after the sowing; then all pits are zero and each store
\* holds its own value plus its own side's pits; otherwise the status is
\* active and the board is the sown board.
C4_EndGameSweep ==
    \A r \in Moved :
        LET s == req[r].mv.sown
            b == req[r].mv.board
            aPits == s[0] + s[1] + s[2] + s[3] + s[4] + s[5]
            bPits == s[7] + s[8] + s[9] + s[10] + s[11] + s[12]
        IN  /\ req[r].mv.status = "finished" <=> (aPits = 0 \/ bPits = 0)
            /\ req[r].mv.status = "finished" =>
                  /\ \A i \in (0 .. 5) \cup (7 .. 12) : b[i] = 0
                  /\ b[6] = s[6] + aPits
                  /\ b[13] = s[13] + bPits
            /\ req[r].mv.status # "finished" =>
                  /\ req[r].mv.status = "active"
                  /\ b = s

\* side A's pits are empty after the sowing while side B still holds stones,
\* which are swept into side B's store
C4_Witness ==
    \E r \in Moved :
        LET s == req[r].mv.sown
        IN  /\ \A i \in 0 .. 5 : s[i] = 0
            /\ \E i \in 7 .. 12 : s[i] > 0
            /\ req[r].mv.status = "finished"
            /\ req[r].mv.board[13] > s[13]

FirstMoveOfPit0 ==
    {r \in Moved : /\ req[r].game.state.board = InitialBoard
                   /\ SideA(req[r])
                   /\ req[r].pit = 0}

\* C5 as stated: on the initial board side A's pit 0 gives
\* [0,5,5,5,5,4,1,4,4,4,4,4,4,0] and side A keeps the turn.
C5_AsStated ==
    \A r \in FirstMoveOfPit0 :
        /\ req[r].mv.board = Brd(<<0, 5, 5, 5, 5, 4, 1, 4, 4, 4, 4, 4, 4, 0>>)
        /\ req[r].mv.nextTurn = req[r].playerId

\* C5 amended: on the initial board side A's pit 0 (4 stones) gives
\* [0,5,5,5,5,4,0,4,4,4,4,4,4,0]; the last stone lands in pit 4 and the turn
\* passes to side B.
C5_Pit0Scenario ==
    \A r \in FirstMoveOfPit0 :
        /\ req[r].mv.board = Brd(<<0, 5, 5, 5, 5, 4, 0, 4, 4, 4, 4, 4, 4, 0>>)
        /\ req[r].mv.idx = 4
        /\ req[r].mv.nextTurn = req[r].game.playerIds[2]
        /\ req[r].mv.status = "active"

C5_Witness == FirstMoveOfPit0 # {}

\* ===================================================== properties: the server
IsPrefix(s, t) == Len(s) <= Len(t) /\ SubSeq(t, 1, Len(s)) = s

Rejections == {"not_found", "forbidden", "not_your_turn", "invalid_pit"}

\* the stored match of the last response's turn token
RespGames == {ActiveGames[g] : g \in GamesByTurnId(resp.turnId)}

\* C6 as stated: submitMove validates existence, participation, turn
\* ownership and pit validity in this order: an unknown token is answered
\* 'not found' whatever the player and the pit, a known token with a
\* non-participant 'forbidden', a participant without the turn 'not your
\* turn', and only a participant holding the turn 'invalid pit'.
C6_ValidationOrder ==
    resp.op = "submitMove" =>
        /\ RespGames = {} => resp.code = "not_found"
        /\ \A game \in RespGames :
              /\ IndexOf(game.playerIds, resp.playerId) = 0 - 1
                    => resp.code = "forbidden"
              /\ resp.code = "not_your_turn"
                    => IndexOf(game.playerIds, resp.playerId) # 0 - 1
              /\ resp.code = "invalid_pit"
                    => /\ IndexOf(game.playerIds, resp.playerId) # 0 - 1
                       /\ game.state.turn = resp.playerId

\* C7: a rejected submitMove mutates nothing.  The step in which the handler
\* answers not-found, forbidden, not-your-turn or invalid-pit leaves the
\* matches, the player records, the registry and the published events as
\* they were, and so does the step that started the invocation.
C7_RejectionMutatesNothing ==
    [][/\ (resp'.n # resp.n /\ resp'.op = "submitMove"
             /\ resp'.code \in Rejections)
          => UNCHANGED <<ActivePlayers, ActiveGames, Players, listeners,
                         subs>>
       /\ (\E r \in DOMAIN req :
              req[r].pc = "idle" /\ req'[r].pc = "fetch")
          => UNCHANGED <<ActivePlayers, ActiveGames, Players, listeners,
                         subs>>]_vars

\* a participant was answered 'not your turn' while a subscriber of the
\* match's players is connected
C7_Witness ==
    /\ resp.op = "submitMove"
    /\ resp.code = "not_your_turn"
    /\ \E game \in RespGames : IndexOf(game.playerIds, resp.playerId) # 0 - 1
    /\ \E s \in DOMAIN subs : ~subs[s].closed

\* C8 as stated: of two submissions against the same match state only one
\* takes effect, so a write of a match never drops or replaces a history
\* entry written before: every stored history only grows.
C8_HistoryAppendOnly ==
    [][\A g \in DOMAIN ActiveGames :
          IsPrefix(ActiveGames[g].history, ActiveGames'[g].history)]_vars

\* the player records after the rating updates of the finished matches
\* order[1], order[2] applied one after the other
RECURSIVE SerialRatings(_, _, _)
SerialRatings(players, order, k) ==
    IF k = 0 THEN players
    ELSE LET before == SerialRatings(players, order, k - 1)
             game == ActiveGames[order[k]]
             a == game.playerIds[1]
             b == game.playerIds[2]
             winner == WinnerIdx(game.state.board)
             ua == PlayerUpdate(1, before[a], before[b], winner)
             ub == PlayerUpdate(2, before[b], before[a], winner)
         IN  [p \in Player |->
                IF p = a
                THEN [score |-> ua.score, wins |-> before[a].wins + ua.w,
                      losses |-> before[a].losses + ua.l]
                ELSE IF p = b
                THEN [score |-> ub.score, wins |-> before[b].wins + ub.w,
                      losses |-> before[b].losses + ub.l]
                ELSE before[p]]

FreshPlayers ==
    [p \in Player |-> [score |-> StartScore, wins |-> 0, losses |-> 0]]

\* two different matches with a common player were each finished by one of
\* the run's two requests, and both handlers have ended
TwoMatchesFinished ==
    /\ MaxReq = 2
    /\ budget = 0
    /\ \A r \in DOMAIN req : req[r].pc = "idle"
    /\ Len(ActiveGames) = 2
    /\ \A g \in 1 .. 2 : ActiveGames[g].state.status = "finished"

\* C9 as stated: when two matches involving the same player finish
\* concurrently, the player records reflect both results: they are the
\* records that the two rating updates give in one order or the other.
C9_RatingsReflectBothResults ==
    TwoMatchesFinished =>
        \/ Players = SerialRatings(FreshPlayers, <<1, 2>>, 2)
        \/ Players = SerialRatings(FreshPlayers, <<2, 1>>, 2)

\* C10 as stated: a successful getTurn returns a match in which the
\* requester participates, whose status is active and whose turn is the
\* requester's; a created match is returned only when the requester has no
\* other active match in which it is their turn.
C10_GetTurnReturnsActiveTurn ==
    (resp.op = "getTurn" /\ resp.code = "ok") =>
        /\ IndexOf(resp.game.playerIds, resp.playerId) # 0 - 1
        /\ resp.game.state.status = "active"
        /\ resp.game.state.turn = resp.playerId
        /\ resp.created =>
              \A g \in GamesOfPlayer(resp.playerId) :
                  (/\ ActiveGames[g].state.turn = resp.playerId
                   /\ ActiveGames[g].state.status = "active")
                  => ActiveGames[g].id = resp.game.id


\* ------------------------------------------------------ properties: GET turns
\* the step in which the invocation r of GET turns leaves position pc
Leaves(r, pc) == req[r].pc = pc /\ req'[r].pc # pc

\* the active matches of a player in which it is, or is not, their turn
TurnReady(playerId) ==
    {g \in GamesOfPlayer(playerId) :
        /\ ActiveGames[g].state.status = "active"
        /\ ActiveGames[g].state.turn = playerId}

Waiting(playerId) ==
    {g \in GamesOfPlayer(playerId) :
        /\ ActiveGames[g].state.status = "active"
        /\ ActiveGames[g].state.turn # playerId}

\* C11 as stated: when getTurn finds no turn-ready match, it fails with the
\* backpressure error exactly when the player has more than 10 active
\* matches in which it is not their turn, and then it creates no match.
C11_Backpressure ==
    [][\A r \in DOMAIN req :
          (Leaves(r, "queryGames") /\ TurnReady(req[r].playerId) = {})
          => /\ (resp'.n # resp.n /\ resp'.code = "too_many")
                   <=> Cardinality(Waiting(req[r].playerId))
                          > MAX_ACTIVE_GAMES_PER_PLAYER
             /\ ActiveGames' = ActiveGames]_vars

\* C12: every match created by getTurn has two distinct participants, the
\* requester first and an opponent of the registry second, the initial
\* board, the turn with the requester, no history, status active and a turn
\* token no other match carries; a getTurn that finds nobody but the
\* requester in the registry answers 'no opponent' and creates no match,
\* and only such a getTurn answers so.
C12_CreatedMatch ==
    [][/\ \A r \in DOMAIN req :
            Leaves(r, "putGame") =>
                LET playerId == req[r].playerId
                    n == Len(ActiveGames) + 1
                    new == ActiveGames'[n]
                IN  /\ Len(ActiveGames') = n
                    /\ SubSeq(ActiveGames', 1, n - 1) = ActiveGames
                    /\ new.playerIds[1] = playerId
                    /\ new.playerIds[2] # playerId
                    /\ new.playerIds[2] \in ActivePlayers
                    /\ Len(new.playerIds) = 2
                    /\ new.state.board = InitialBoard
                    /\ new.state.turn = playerId
                    /\ new.state.status = "active"
                    /\ new.history = <<>>
                    /\ \A g \in DOMAIN ActiveGames :
                          ActiveGames[g].turnId # new.turnId
                    /\ resp'.game = new
       /\ (\A r \in DOMAIN req : ~Leaves(r, "putGame"))
             => Len(ActiveGames') = Len(ActiveGames)
       /\ \A r \in DOMAIN req :
            Leaves(r, "queryPlayers") =>
                ((ActivePlayers \ {req[r].playerId} = {})
                   <=> (resp'.n # resp.n /\ resp'.code = "no_opponent"))]_vars

\* a getTurn has created a match against a registered opponent
C12_Witness ==
    /\ resp.op = "getTurn"
    /\ resp.code = "ok"
    /\ resp.created
    /\ ActiveGames[Len(ActiveGames)] = resp.game
    /\ resp.game.playerIds[1] = resp.playerId
    /\ resp.game.playerIds[2] \in ActivePlayers \ {resp.playerId}

\* relative is the side-B rotation of stored: absolute 7-12 at 0-5, absolute
\* 13 at 6, absolute 0-5 at 7-12, absolute 6 at 13
Rotated(stored, relative) ==
    /\ DOMAIN relative = Slots
    /\ \A i \in 0 .. 5 : relative[i] = stored[i + 7]
    /\ relative[6] = stored[13]
    /\ \A i \in 7 .. 12 : relative[i] = stored[i - 7]
    /\ relative[13] = stored[6]

C14_PerspectiveInvolution ==
    resp.op = "transform" =>
        LET stored == resp.game.state.board
        IN  /\ resp.code \in {"none", "A", "AA", "BB"} => resp.board = stored
            /\ resp.code \in {"B", "AB", "BA"} => Rotated(stored, resp.board)

\* a board whose slots all differ has been transformed twice for the second
\* side
C14_Witness ==
    /\ resp.op = "transform"
    /\ resp.code = "BB"
    /\ \A i \in Slots, j \in Slots :
          i # j => resp.game.state.board[i] # resp.game.state.board[j]
    /\ resp.board = resp.game.state.board

\* ------------------------------------------- properties: finished-game events
\* the step in which invocation r publishes the finished match
Publishes(r) == req[r].pc = "fetch" /\ req'[r].pc = "getPlayers"

\* the match as invocation r publishes it
Published(r) == FinishedGame(req'[r].game, req'[r].mv)

\* the number of moves of a history made by a player
MovesBy(history, playerId) ==
    Cardinality({k \in 1 .. Len(history) : history[k].player = playerId})

Registered(s) ==
    \E p \in Player : \E k \in 1 .. Len(listeners[p]) : listeners[p][k] = s

\* C15: after its disconnect a subscriber is sent nothing more and the
\* emitter holds no listener for it, while every publish of a match sends
\* to each still-connected subscriber of a participant one event for each
\* of that participant's moves.
C15_NoEventAfterDisconnect ==
    [][/\ \A s \in DOMAIN subs :
            subs[s].closed => (subs'[s] = subs[s] /\ ~Registered(s)')
       /\ \A s \in DOMAIN subs' : subs'[s].closed => ~Registered(s)'
       /\ \A r \in DOMAIN req :
            Publishes(r) =>
                \A s \in DOMAIN subs :
                    (/\ ~subs[s].closed
                     /\ IndexOf(Published(r).playerIds, subs[s].playerId)
                           # 0 - 1)
                    => /\ Len(subs'[s].out)
                            = Len(subs[s].out)
                              + MovesBy(Published(r).history,
                                        subs[s].playerId)
                       /\ Len(subs'[s].out) > Len(subs[s].out)]_vars

\* of two subscribers of one player, the one that disconnected before a
\* match of the player finished has been sent nothing, the other the events
C15_Witness ==
    \E s \in DOMAIN subs, t \in DOMAIN subs :
        /\ subs[s].playerId = subs[t].playerId
        /\ subs[s].closed /\ subs[s].out = <<>>
        /\ ~subs[t].closed /\ subs[t].out # <<>>
        /\ \E g \in GamesOfPlayer(subs[s].playerId) :
              ActiveGames[g].state.status = "finished"

\* the events a step has appended to the stream of subscription s
NewEvents(s) ==
    SubSeq(subs'[s].out, Len(subs[s].out) + 1, Len(subs'[s].out))

\* the moves of a history made by a player, in order
MovesOf(history, playerId) ==
    SelectSeq(history, LAMBDA m : m.player = playerId)

\* C16 as stated: the events a publish sends to a subscriber of player P are
\* P's moves of the match history, in order, each in P's perspective: for P
\* as first participant the stored board and pit, for P as second
\* participant the rotated board and the relative pit in 0..5 that P had
\* submitted (the stored absolute pit minus 7).
C16_EventPerspective ==
    [][\A r \in DOMAIN req :
          Publishes(r) =>
            \A s \in DOMAIN subs :
                LET playerId == subs[s].playerId
                    game == Published(r)
                    mine == MovesOf(game.history, playerId)
                    new == NewEvents(s)
                IN  (/\ ~subs[s].closed
                     /\ IndexOf(game.playerIds, playerId) # 0 - 1)
                    => /\ Len(new) = Len(mine)
                       /\ \A k \in 1 .. Len(mine) :
                            /\ new[k].move.player = playerId
                            /\ game.playerIds[1] = playerId
                                 => /\ new[k].move.board = mine[k].board
                                    /\ new[k].move.pit = mine[k].pit
                            /\ game.playerIds[1] # playerId
                                 => /\ Rotated(mine[k].board,
                                               new[k].move.board)
                                    /\ new[k].move.pit \in 0 .. 5
                                    /\ new[k].move.pit = mine[k].pit - 7]_vars

Wins == Players["p1"].wins + Players["p2"].wins + Players["p3"].wins

Losses == Players["p1"].losses + Players["p2"].losses + Players["p3"].losses

\* C17 as stated: in no reachable state has the rating update of a finished
\* match reached the record of one participant and not the record of the
\* other: no invocation has completed exactly one of its two writes, and
\* the records hold as many wins as losses.
C17_RatingUpdateUnsplit ==
    /\ \A r \in DOMAIN req :
          req[r].pc = "putPlayers" => req[r].put \in {{}, {1, 2}}
    /\ Wins = Losses

\* the change of the score of participant i by the rating update
ScoreChange(i) ==
    Players[IF i = 1 THEN "p1" ELSE "p2"].score - resp.game.players[i].score

\* C19: ELO bounds.  A rating update changes neither participant's score by
\* more than K_FACTOR, up or down, whatever the two scores and the outcome,
\* and a draw between two equal scores changes neither.
C19_EloBounds ==
    resp.op = "rate" =>
        /\ \A i \in 1 .. 2 :
              /\ ScoreChange(i) <= K_FACTOR
              /\ ScoreChange(i) >= 0 - K_FACTOR
        /\ (/\ resp.pit = 0
            /\ resp.game.players[1].score = resp.game.players[2].score)
              => (ScoreChange(1) = 0 /\ ScoreChange(2) = 0)

\* the bound is met: a winner rated far below the loser gains K_FACTOR
C19_Witness ==
    /\ resp.op = "rate"
    /\ resp.pit = 1
    /\ ScoreChange(1) = K_FACTOR
    /\ Players["p1"].wins = 1
    /\ Players["p2"].losses = 1

\* ---------------------------------------- properties: the finishing move
\* the match of frame f is stored as f's move left it
Persisted(f) ==
    \E g \in DOMAIN ActiveGames :
        /\ ActiveGames[g].id = f.game.id
        /\ ActiveGames[g].state = f.mv.updatedState
        /\ ActiveGames[g].history = f.mv.history

\* C20 as stated: a move that finishes its match is first stored with its
\* Move record and status finished, then both ratings are updated, and only
\* then the finished match is published; a move that leaves the match
\* active updates no rating and publishes nothing.
C20_FinishOrder ==
    [][\A r \in DOMAIN req :
          /\ Publishes(r)
                => /\ Persisted(req'[r])
                   /\ req'[r].put = {1, 2}
                   /\ req'[r].mv.status = "finished"
          /\ (req[r].pc = "putPlayers" /\ req'[r].put # req[r].put)
                => Persisted(req[r])
          /\ (req[r].pc = "fetch" /\ req'[r].pc = "persist")
                => /\ req'[r].mv.status = "active"
                   /\ subs' = subs
                   /\ Players' = Players
          /\ (req[r].pc = "persist" /\ req[r].mv.status = "active"
                /\ req'[r].pc = "idle")
                => /\ subs' = subs
                   /\ Players' = Players]_vars

\* ------------------------------------------------ properties: the match record
\* the turn of every stored match is one of its two participants
TurnIsParticipant ==
    \A g \in DOMAIN ActiveGames :
        ActiveGames[g].state.turn \in {ActiveGames[g].playerIds[1],
                                       ActiveGames[g].playerIds[2]}

\* C21: no step of getTurn or submitMove changes the identifier, the turn
\* token or the ordered pair of participants of a stored match, and no match
\* is removed; the turn of a stored match is always one of its two
\* participants.
C21_MatchFrame ==
    /\ []TurnIsParticipant
    /\ [][/\ Len(ActiveGames') >= Len(ActiveGames)
          /\ \A g \in DOMAIN ActiveGames :
                /\ ActiveGames'[g].id = ActiveGames[g].id
                /\ ActiveGames'[g].turnId = ActiveGames[g].turnId
                /\ ActiveGames'[g].playerIds = ActiveGames[g].playerIds
                /\ Len(ActiveGames'[g].playerIds) = 2]_vars

\* an accepted move of the second participant has been written to a match
\* that still carries the token the move was submitted with
C21_Witness ==
    /\ resp.op = "submitMove"
    /\ resp.code = "ok"
    /\ \E g \in DOMAIN ActiveGames :
          LET game == ActiveGames[g]
          IN  /\ game.turnId = resp.turnId
              /\ game.id = g
              /\ game.playerIds[2] = resp.playerId
              /\ game.history # <<>>
              /\ game.history[Len(game.history)].player = resp.playerId
              /\ game.state.turn = game.playerIds[1]

\* ------------------------------------------------------- play to the end
\* the longest play that is left in the endgames below
MaxEndgame == 27

\* 76 moves after which eight stones are in the pits, the first side to move
EndgameLineA ==
    <<3, 7, 2, 5, 11, 0, 9, 1, 10, 3, 11, 12, 4, 10, 5, 11, 10, 1, 8, 2,
      9, 11, 3, 7, 5, 10, 12, 3, 8, 0, 7, 5, 8, 1, 11, 5, 4, 9, 2, 11,
      12, 2, 10, 4, 11, 1, 8, 0, 12, 2, 9, 5, 8, 1, 9, 4, 0, 7, 2, 9,
      5, 3, 9, 5, 1, 7, 2, 8, 4, 10, 5, 1, 12, 9, 2, 10>>

\* 76 moves after which six stones are in the pits, the second side to move
EndgameLineB ==
    <<2, 4, 12, 0, 8, 7, 4, 8, 3, 9, 2, 10, 1, 12, 1, 9, 5, 12, 8, 4,
      9, 1, 7, 3, 9, 5, 11, 1, 7, 3, 10, 0, 4, 12, 1, 9, 5, 11, 12, 2,
      12, 7, 5, 3, 9, 5, 0, 8, 2, 10, 4, 9, 3, 5, 11, 0, 7, 1, 4, 2,
      9, 3, 5, 12, 1, 7, 4, 2, 8, 3, 10, 0, 9, 1, 12, 11>>

\* the replay of the moves from .. to of a line on an adjourned match
Resume(game, line, from, to) ==
    Replay(game, SubSeq(line, from, to), to - from + 1)

\* the two lines are replayed in four sittings of 19 moves
EndgameA1 == Adjourned(1, "p1", "p2", EndgameLineA, 19)

EndgameA2 == Resume(EndgameA1, EndgameLineA, 20, 38)

EndgameA3 == Resume(EndgameA2, EndgameLineA, 39, 57)

EndgameA == Resume(EndgameA3, EndgameLineA, 58, Len(EndgameLineA))

EndgameB1 == Adjourned(1, "p1", "p2", EndgameLineB, 19)

EndgameB2 == Resume(EndgameB1, EndgameLineB, 20, 38)

EndgameB3 == Resume(EndgameB2, EndgameLineB, 39, 57)

EndgameB == Resume(EndgameB3, EndgameLineB, 58, Len(EndgameLineB))

EndgameSeeds == {EndgameA, EndgameB, Adjourned(1, "p1", "p2", ShortLine, 12)}

\* one adjourned match and two clients that play it to its end
InitEndgame == \E game \in EndgameSeeds : InitWith(<<game>>, 1, MaxEndgame)

\* playRandomGame polls and submits in a loop until the match is over, and a
\* handler that has started runs on after each await
SpecEndgame ==
    InitEndgame /\ [][NextEngine]_vars /\ WF_vars(NextEngine)

\* a measure of how far the stones have travelled: a stone in a store counts
\* 241, a stone in a pit counts its distance from the first pit of its side
Rank(board) ==
    241 * (board[6] + board[13])
    + SumFrom([i \in Slots |-> i * board[i]], 0, 5)
    + SumFrom([i \in Slots |-> (i - 7) * board[i]], 7, 12)

MaxRank == 241 * Stones(InitialBoard)

AllFinished ==
    \A g \in DOMAIN ActiveGames : ActiveGames[g].state.status = "finished"

\* C22: every match terminates.  Each accepted move appends one history
\* entry and strictly raises the rank of the stored board, which 48 stones
\* bound by MaxRank, so no match has an infinite sequence of accepted moves;
\* and when the clients keep submitting available pits, every match is
\* eventually finished.
C22_GamesTerminate ==
    /\ [](\A g \in DOMAIN ActiveGames :
             Rank(ActiveGames[g].state.board) <= MaxRank)
    /\ [][\A g \in DOMAIN ActiveGames :
             ActiveGames'[g] # ActiveGames[g]
             => /\ Len(ActiveGames'[g].history)
                     = Len(ActiveGames[g].history) + 1
                /\ Rank(ActiveGames'[g].state.board)
                     > Rank(ActiveGames[g].state.board)]_vars
    /\ <>AllFinished

\* a match played to its end over ten or more moves of the clients
C22_Witness ==
    /\ AllFinished
    /\ resp.op = "submitMove"
    /\ resp.code = "ok"
    /\ budget <= MaxEndgame - 10
    /\ \E g \in DOMAIN ActiveGames :
          /\ ActiveGames[g].state.board[6] + ActiveGames[g].state.board[13]
               = Stones(InitialBoard)
          /\ Len(ActiveGames[g].history) >= Len(EndgameLineA) + 10

\* the match of a frame is stored as finished
StoredFinished(id) ==
    \E g \in DOMAIN ActiveGames :
        /\ ActiveGames[g].id = id
        /\ ActiveGames[g].state.status = "finished"

\* C23 as stated: finished is absorbing.  A stored match with status
\* finished never changes again; a submitMove that fetches it is rejected
\* and writes nothing; and no rating is written and no end of match is
\* published for a match that is stored as finished.
C23_FinishedAbsorbing ==
    [][/\ \A g \in DOMAIN ActiveGames :
             ActiveGames[g].state.status = "finished"
                => ActiveGames'[g] = ActiveGames[g]
       /\ \A r \in DOMAIN req :
             /\ (/\ Leaves(r, "fetch")
                 /\ \E g \in GamesByTurnId(req[r].turnId) :
                       ActiveGames[g].state.status = "finished")
                   => /\ req'[r].pc = "idle"
                      /\ resp'.code \in Rejections
                      /\ Players' = Players
                      /\ subs' = subs
             /\ (req[r].pc = "putPlayers" /\ req'[r].put # req[r].put)
                   => ~StoredFinished(req[r].game.id)
             /\ Publishes(r) => ~StoredFinished(req'[r].game.id)]_vars

\* the relative pits 0..5 that submitMove accepts from playerId on a game
AcceptedPits(game, playerId) ==
    {pit \in 0 .. 5 :
        LET isPlayer1 == IndexOf(game.playerIds, playerId) = 0
            un == Unflip(pit, isPlayer1)
        IN  /\ un.ok
            /\ IndexOf(game.playerIds, playerId) # 0 - 1
            /\ game.state.turn = playerId
            /\ ~PitInvalid(game.state.board, un.pit, isPlayer1)}

\* in every stored active match the turn holder has a non-empty pit
TurnHolderCanMove ==
    \A g \in DOMAIN ActiveGames :
        ActiveGames[g].state.status = "active"
            => AcceptedPits(ActiveGames[g], ActiveGames[g].state.turn) # {}

\* C24 as stated: no stuck turn.  In every stored active match the turn
\* holder owns a non-empty pit on their side, and the match a successful
\* getTurn hands out admits a relative pit in 0..5 that is non-empty on the
\* board sent and that submitMove accepts.
C24_NoStuckTurn ==
    /\ TurnHolderCanMove
    /\ (resp.op = "getTurn" /\ resp.code = "ok")
          => \E pit \in AcceptedPits(resp.game, resp.playerId) :
                 pit \in GetRandomPit(resp.board)

\* ------------------------------------------ the move logic on either side
\* the most stones in the pit that is played
MaxSow == 14

\* the boards a move is played on: a pit of the second side with up to
\* MaxSow stones and one other occupied slot, the initial board, and every
\* board of the two replayed endgame lines
SymmetryBoards ==
    {[i \in Slots |-> IF i = a THEN v ELSE IF i = c THEN w ELSE 0] :
        a \in 7 .. 12, c \in Slots, v \in 1 .. MaxSow, w \in 0 .. MaxStones}
    \cup {InitialBoard}
    \cup {EndgameA.history[k].board : k \in DOMAIN EndgameA.history}
    \cup {EndgameB.history[k].board : k \in DOMAIN EndgameB.history}

\* a match of p1 and p2 with the given board in which it is turn's move
SymmetryGame(board, turn) ==
    [NewGame(1, "p1", "p2") EXCEPT !.state.board = board,
                                   !.state.turn = turn]

\* resp.board holds the board b as stored, resp.pit the relative pit, and
\* resp.game the outcome of the move for either side once it is played
InitSymmetry ==
    /\ ActiveGames = <<>>
    /\ ActivePlayers = {}
    /\ Players = [p \in Player |->
                    [score |-> StartScore, wins |-> 0, losses |-> 0]]
    /\ listeners = [p \in Player |-> <<>>]
    /\ subs = <<>>
    /\ req = <<Idle>>
    /\ budget = 0
    /\ \E board \in SymmetryBoards :
          resp = [NoResp EXCEPT !.op = "mirror", !.board = board,
                                !.game = [id |-> 0, asA |-> <<>>,
                                          asB |-> <<>>]]

\* the second participant submits relative pit r on the stored board b: the
\* unflip of lines 212-225, the pit validation and the move logic
SideBPlays(r) ==
    /\ resp.op = "mirror"
    /\ resp.game.asB = <<>>
    /\ resp.game.asA # <<>> => resp.pit = r
    /\ LET game == SymmetryGame(resp.board, "p2")
           un == Unflip(r, FALSE)
       IN  /\ un.ok
           /\ ~PitInvalid(game.state.board, un.pit, FALSE)
           /\ resp' = [resp EXCEPT
                         !.n = @ + 1, !.pit = r,
                         !.game.asB = <<ApplyMove(game, "p2", un.pit)>>]
    /\ UNCHANGED <<ActivePlayers, ActiveGames, Players, listeners, subs, req,
                   budget>>

\* the first participant submits relative pit r on the stored board
\* normalize(b, false)
SideAPlays(r) ==
    /\ resp.op = "mirror"
    /\ resp.game.asA = <<>>
    /\ resp.game.asB # <<>> => resp.pit = r
    /\ LET game == SymmetryGame(Normalize(resp.board, FALSE), "p1")
           un == Unflip(r, TRUE)
       IN  /\ un.ok
           /\ ~PitInvalid(game.state.board, un.pit, TRUE)
           /\ resp' = [resp EXCEPT
                         !.n = @ + 1, !.pit = r,
                         !.game.asA = <<ApplyMove(game, "p1", un.pit)>>]
    /\ UNCHANGED <<ActivePlayers, ActiveGames, Players, listeners, subs, req,
                   budget>>

NextSymmetry ==
    \/ \E r \in 0 .. 5 : SideBPlays(r)
    \/ \E r \in 0 .. 5 : SideAPlays(r)

SpecSymmetry == InitSymmetry /\ [][NextSymmetry]_vars

\* C25: the move engine is side-symmetric.  For every board b and relative
\* pit r in 0..5 that is non-empty on the second side, the second side
\* playing r on b gives, after normalizing for the second side, the board
\* that the first side playing r on normalize(b, false) gives, with the same
\* status, and the mover keeps the turn in both cases or in neither.
C25_SideSymmetry ==
    (resp.op = "mirror" /\ resp.game.asA # <<>> /\ resp.game.asB # <<>>)
        => LET asA == resp.game.asA[1]
               asB == resp.game.asB[1]
           IN  /\ Normalize(asB.board, FALSE) = asA.board
               /\ asB.status = asA.status
               /\ asB.nextTurn = "p2" <=> asA.nextTurn = "p1"

\* the second side has played its last pit with eight or more stones, so
\* that the sowing passed the first side's store, and the first side has
\* played the same pit on the normalized board
C25_Witness ==
    /\ resp.op = "mirror"
    /\ resp.pit = 5
    /\ resp.board[12] >= 8
    /\ resp.game.asA # <<>>
    /\ resp.game.asB # <<>>
    /\ resp.game.asB[1].board[6] = resp.board[6]
    /\ resp.game.asB[1].board[7] = resp.board[7] + 1

=============================================================================
